---- MODULE Spec2Model ----
(***************************************************************************)
(* textarena/basic_agents.py: the Agent base class and its three variants  *)
(* HumanAgent (interactive), GPTAgent (remote model) and HFLocalAgent      *)
(* (local model).                                                          *)
(*                                                                         *)
(* A text (observation, action, line, message) is a sequence of pieces; a  *)
(* piece is a one-character string or a literal of the source kept whole.  *)
(* A Python value that may be None is a record with the field isNone.      *)
(* The program is single-threaded: a constructor or a call is one step,    *)
(* and `last` records what that step did: the external effects in the      *)
(* order the code performs them (events), what the backend answered        *)
(* (outcome) and how the step ended (result: a return or a raise).         *)
(***************************************************************************)
EXTENDS Integers, Sequences, FiniteSets, TLC

VARIABLES
    agents,     \* the live agent instances, in order of construction
    environ,    \* os.environ["OPENAI_API_KEY"], None when not set
    api_key,    \* the module attribute openai.api_key (process-global)
    last        \* the last step: operation, effects in order, result

vars == <<agents, environ, api_key, last>>

----------------------------------------------------------------------------
(* Bounds of the model *)

MaxAgents == 2      \* live instances in one run

(* Program constants *)

NumChoices == 1         \* n=1, num_return_sequences=1
TemperatureTenths == 7  \* temperature=0.7, in tenths

----------------------------------------------------------------------------
(* Python values *)

None == [isNone |-> TRUE]
Str(s) == [isNone |-> FALSE, str |-> s]
Truthy(v) == ~v.isNone /\ v.str # ""

Return(v) == [kind |-> "return", value |-> v]
Raise(e) == [kind |-> "raise", exc |-> e]

\* isException: the class derives from Exception (KeyboardInterrupt, SystemExit
\* and GeneratorExit derive from BaseException only).
\* printable: str(e) returns; otherwise formatting e raises StrError.
Exc(type, isException, printable, msg) ==
    [type |-> type, isException |-> isException, printable |-> printable, msg |-> msg]

ValueError == Exc("ValueError", TRUE, TRUE,
    <<"OpenAI API key not found. Please set the OPENAI_API_KEY environment variable.">>)
EOFError == Exc("EOFError", TRUE, TRUE, <<"EOF when reading a line">>)
IndexError == Exc("IndexError", TRUE, TRUE, <<"list index out of range">>)
AttributeError == Exc("AttributeError", TRUE, TRUE,
    <<"'NoneType' object has no attribute 'strip'">>)
OSError == Exc("OSError", TRUE, TRUE, <<"is not a valid model identifier">>)
NotFoundError == Exc("NotFoundError", TRUE, TRUE, <<"No endpoints found">>)
StrError == Exc("TypeError", TRUE, TRUE, <<"__str__ returned non-string">>)

\* What a client request or a pipeline run may raise.
BackendExceptions ==
    { Exc("APIConnectionError", TRUE, TRUE, <<"Connection error.">>),
      Exc("KeyboardInterrupt", FALSE, TRUE, <<>>),
      Exc("BadStrError", TRUE, FALSE, <<>>) }

----------------------------------------------------------------------------
(* Inputs *)

ModelNames == {"", "model-a", "no-such-model"}
HumanNames == {"", "alice"}
Resolvable == {"model-a"}     \* identifiers the hub / the provider knows
EnvValues == {None, Str(""), Str("sk-1")}
Observations == {<<"go">>, <<" ", "x", "\n">>}
RawLines == {<<"hello", "\n">>, <<" ", "hi", " ", "\n">>}   \* as typed
Generations == {<<" ">>, <<"\n", " ", "a", " ", "b", " ", "\n">>}

----------------------------------------------------------------------------
(* str.strip() *)

Whitespace == {" ", "\n", "\t"}

RECURSIVE LStrip(_)
LStrip(s) ==
    IF s # <<>> /\ Head(s) \in Whitespace THEN LStrip(Tail(s)) ELSE s

RECURSIVE RStrip(_)
RStrip(s) ==
    IF s # <<>> /\ s[Len(s)] \in Whitespace
    THEN RStrip(SubSeq(s, 1, Len(s) - 1))
    ELSE s

\* Faulty variant: only leading whitespace is removed.
StripLeftOnly(s) == LStrip(s)

Strip(s) == RStrip(LStrip(s))

----------------------------------------------------------------------------
(* Agent.__init__ *)

AgentInit(model_name) ==
    [model_name |-> model_name, agent_identifier |-> model_name]

----------------------------------------------------------------------------
(* HumanAgent *)

HumanAgentInit(model_name) ==
    [cls |-> "HumanAgent"] @@ AgentInit(model_name)

Prompt == <<"Please enter the action: ">>

\* What reading standard input may do: the operator types a line, the
\* input ends, or the operator interrupts.
ReadOutcomes ==
    { Return(raw) : raw \in RawLines }
    \cup { Raise(EOFError), Raise(Exc("KeyboardInterrupt", FALSE, TRUE, <<>>)) }

\* input(): the line read, without its terminator.
Input(raw) ==
    IF raw # <<>> /\ raw[Len(raw)] = "\n" THEN SubSeq(raw, 1, Len(raw) - 1) ELSE raw

\* print(observation); return input("Please enter the action: ")
\* input() writes the prompt, then reads one line.
\* Faulty variant: the line read is trimmed.
HumanAgentCall_Trimmed(self, observation, outcome) ==
    [ self |-> self,
      events |-> << [ev |-> "stdout.write", text |-> observation \o <<"\n">>],
                    [ev |-> "stdout.write", text |-> Prompt],
                    [ev |-> "stdin.readline"] >>,
      outcome |-> outcome,
      result |-> IF outcome.kind = "raise" THEN outcome
                 ELSE Return(Strip(Input(outcome.value))) ]

HumanAgentCall(self, observation, outcome) ==
    [ self |-> self,
      events |-> << [ev |-> "stdout.write", text |-> observation \o <<"\n">>],
                    [ev |-> "stdout.write", text |-> Prompt],
                    [ev |-> "stdin.readline"] >>,
      outcome |-> outcome,
      result |-> IF outcome.kind = "raise" THEN outcome
                 ELSE Return(Input(outcome.value)) ]

----------------------------------------------------------------------------
(* except Exception as e: return f"An error occurred: {e}" *)

ErrorString(e) == <<"An error occurred: ">> \o e.msg

\* Faulty variant: the handler raises the exception again.
HandleReraise(e) == Raise(e)

Handle(e) ==
    IF ~e.isException THEN Raise(e)
    ELSE IF ~e.printable THEN Raise(StrError)
    ELSE Return(ErrorString(e))

----------------------------------------------------------------------------
(* GPTAgent *)

OpenAIClient == [base_url |-> "https://openrouter.ai/api/v1"]

\* The constructor, given the value of the environment variable: the
\* attribute openai.api_key after it, the effects, and the instance or the
\* exception.
\* Faulty variant: the client is built before the credential is checked.
GPTAgentInit_ClientFirst(model_name, env) ==
    LET built == << [ev |-> "openai.OpenAI", base_url |-> OpenAIClient.base_url] >>
    IN  IF ~Truthy(env)
        THEN [ api_key |-> env, events |-> built, result |-> Raise(ValueError) ]
        ELSE [ api_key |-> env, events |-> built,
               result |-> Return([cls |-> "GPTAgent", client |-> OpenAIClient]
                                    @@ AgentInit(model_name)) ]

GPTAgentInit(model_name, env) ==
    IF ~Truthy(env)
    THEN [ api_key |-> env, events |-> <<>>, result |-> Raise(ValueError) ]
    ELSE [ api_key |-> env,
           events |-> << [ev |-> "openai.OpenAI", base_url |-> OpenAIClient.base_url] >>,
           result |-> Return([cls |-> "GPTAgent", client |-> OpenAIClient]
                                @@ AgentInit(model_name)) ]

ChatRequest(self, observation) ==
    [ ev |-> "chat.completions.create",
      client |-> self.client,
      model |-> self.model_name,
      messages |-> << [role |-> "system", content |-> <<"You are a helpful assistant.">>],
                      [role |-> "user", content |-> observation] >>,
      n |-> NumChoices,
      stop |-> None,
      temperature |-> TemperatureTenths ]

Content(t) == [isNone |-> FALSE, text |-> t]
Completion(choices) == [choices |-> choices]
Choice(c) == [message |-> [content |-> c]]

\* What the provider may answer to a request for `model`.
CreateOutcomes(model) ==
    { Raise(e) : e \in BackendExceptions }
    \cup (IF model \in Resolvable
          THEN { Return(Completion(<<>>)), Return(Completion(<<Choice(None)>>)) }
               \cup { Return(Completion(<<Choice(Content(t))>>)) : t \in Generations }
          ELSE { Raise(NotFoundError) })

\* response.choices[0].message.content.strip()
GPTExtract(response) ==
    IF response.choices = <<>> THEN Raise(IndexError)
    ELSE LET c == response.choices[1].message.content
         IN  IF c.isNone THEN Raise(AttributeError) ELSE Return(Strip(c.text))

\* Faulty variant: the reply is extracted after the try block.
GPTAgentCall_ExtractOutsideTry(self, observation, outcome) ==
    [ self |-> self,
      events |-> << ChatRequest(self, observation) >>,
      outcome |-> outcome,
      result |-> IF outcome.kind = "raise" THEN Handle(outcome.exc)
                 ELSE GPTExtract(outcome.value) ]

\* Faulty variant: a failed request is sent once more.
GPTAgentCall_Retry(self, observation, outcome) ==
    LET tried == IF outcome.kind = "raise" THEN outcome ELSE GPTExtract(outcome.value)
    IN  [ self |-> self,
          events |-> IF outcome.kind = "raise"
                     THEN << ChatRequest(self, observation), ChatRequest(self, observation) >>
                     ELSE << ChatRequest(self, observation) >>,
          outcome |-> outcome,
          result |-> IF tried.kind = "raise" THEN Handle(tried.exc) ELSE tried ]

GPTAgentCall(self, observation, outcome) ==
    LET tried == IF outcome.kind = "raise" THEN outcome ELSE GPTExtract(outcome.value)
    IN  [ self |-> self,
          events |-> << ChatRequest(self, observation) >>,
          outcome |-> outcome,
          result |-> IF tried.kind = "raise" THEN Handle(tried.exc) ELSE tried ]

----------------------------------------------------------------------------
(* HFLocalAgent *)

Tokenizer(name) == [res |-> "tokenizer", name |-> name]
CausalLM(name, int8) == [res |-> "model", name |-> name, load_in_8bit |-> int8]
TextGenerationPipeline(model, tokenizer) ==
    [task |-> "text-generation", model |-> model, tokenizer |-> tokenizer]

LoadTokenizer(name) == [ev |-> "AutoTokenizer.from_pretrained", name |-> name]
LoadModel(name, int8) ==
    [ev |-> "AutoModelForCausalLM.from_pretrained", name |-> name, load_in_8bit |-> int8]
BuildPipeline == [ev |-> "pipeline", task |-> "text-generation"]

RuntimeError == Exc("RuntimeError", TRUE, TRUE, <<"out of memory">>)

\* Faulty variant: the tokenizer and the model are loaded on first use.
HFLocalAgentInit_Lazy(model_name, quantize, modelLoads) ==
    [ events |-> <<>>,
      result |-> Return(
          [ cls |-> "HFLocalAgent",
            quantize |-> quantize,
            tokenizer |-> Tokenizer(model_name),
            model |-> CausalLM(model_name, quantize),
            pipeline |-> TextGenerationPipeline(CausalLM(model_name, quantize),
                                                Tokenizer(model_name)) ]
          @@ AgentInit(model_name)) ]

\* The constructor. from_pretrained raises OSError for an identifier it
\* cannot resolve; modelLoads: whether loading the weights succeeds.
HFLocalAgentInit(model_name, quantize, modelLoads) ==
    IF model_name \notin Resolvable
    THEN [ events |-> << LoadTokenizer(model_name) >>, result |-> Raise(OSError) ]
    ELSE IF ~modelLoads
    THEN [ events |-> << LoadTokenizer(model_name), LoadModel(model_name, quantize) >>,
           result |-> Raise(RuntimeError) ]
    ELSE [ events |-> << LoadTokenizer(model_name), LoadModel(model_name, quantize),
                         BuildPipeline >>,
           result |-> Return(
               [ cls |-> "HFLocalAgent",
                 quantize |-> quantize,
                 tokenizer |-> Tokenizer(model_name),
                 model |-> CausalLM(model_name, quantize),
                 pipeline |-> TextGenerationPipeline(CausalLM(model_name, quantize),
                                                     Tokenizer(model_name)) ]
               @@ AgentInit(model_name)) ]

PipelineRequest(self, observation) ==
    [ ev |-> "pipeline.__call__",
      pipeline |-> self.pipeline,
      text_inputs |-> observation,
      num_return_sequences |-> NumChoices,
      temperature |-> TemperatureTenths,
      return_full_text |-> FALSE ]

\* What the model may generate: an exception, or a list of continuations.
PipelineOutcomes ==
    { Raise(e) : e \in BackendExceptions }
    \cup { Return(<<>>) }
    \cup { Return(<<g>>) : g \in Generations }

\* The pipeline's response to a request, given the model's continuations.
PipelineRun(request, continuations) ==
    [ k \in DOMAIN continuations |->
        [ generated_text |-> IF request.return_full_text
                             THEN request.text_inputs \o continuations[k]
                             ELSE continuations[k] ] ]

\* response[0]['generated_text'].strip()
HFExtract(response) ==
    IF response = <<>> THEN Raise(IndexError)
    ELSE Return(Strip(response[1].generated_text))

\* Faulty variant: every call loads the tokenizer and the model again.
HFLocalAgentCall_Reload(self, observation, outcome) ==
    LET request == PipelineRequest(self, observation)
        tried == IF outcome.kind = "raise" THEN outcome
                 ELSE HFExtract(PipelineRun(request, outcome.value))
    IN  [ self |-> self,
          events |-> << LoadTokenizer(self.model_name),
                        LoadModel(self.model_name, self.quantize),
                        BuildPipeline, request >>,
          outcome |-> outcome,
          result |-> IF tried.kind = "raise" THEN Handle(tried.exc) ELSE tried ]

HFLocalAgentCall(self, observation, outcome) ==
    LET request == PipelineRequest(self, observation)
        tried == IF outcome.kind = "raise" THEN outcome
                 ELSE HFExtract(PipelineRun(request, outcome.value))
    IN  [ self |-> self,
          events |-> << request >>,
          outcome |-> outcome,
          result |-> IF tried.kind = "raise" THEN Handle(tried.exc) ELSE tried ]

----------------------------------------------------------------------------
(* State machine *)

NoStep == [op |-> "none", events |-> <<>>, result |-> Return(None)]

Init ==
    /\ agents = <<>>
    /\ environ \in EnvValues
    /\ api_key = None
    /\ last = NoStep

Step(op, i, observation, r) ==
    [ op |-> op, self |-> i, observation |-> observation,
      events |-> r.events, outcome |-> r.outcome, result |-> r.result ]

\* The caller sets or unsets the credential variable.
SetEnviron(v) ==
    /\ v # environ
    /\ environ' = v
    /\ last' = [op |-> "os.environ", events |-> <<>>, result |-> Return(None)]
    /\ UNCHANGED <<agents, api_key>>

\* Faulty variant: the name is kept in an attribute of the class.
ConstructHuman_ClassAttribute(model_name) ==
    /\ Len(agents) < MaxAgents
    /\ agents' = Append([ j \in DOMAIN agents |->
                            IF agents[j].cls = "HumanAgent"
                            THEN HumanAgentInit(model_name)
                            ELSE agents[j] ],
                        HumanAgentInit(model_name))
    /\ last' = [ op |-> "HumanAgent.__init__", model_name |-> model_name,
                 events |-> <<>>, result |-> Return(HumanAgentInit(model_name)) ]
    /\ UNCHANGED <<environ, api_key>>

ConstructHuman(model_name) ==
    /\ Len(agents) < MaxAgents
    /\ agents' = Append(agents, HumanAgentInit(model_name))
    /\ last' = [ op |-> "HumanAgent.__init__", model_name |-> model_name,
                 events |-> <<>>, result |-> Return(HumanAgentInit(model_name)) ]
    /\ UNCHANGED <<environ, api_key>>

CallHuman(i, observation) ==
    /\ i \in DOMAIN agents
    /\ agents[i].cls = "HumanAgent"
    /\ \E outcome \in ReadOutcomes :
         LET r == HumanAgentCall(agents[i], observation, outcome)
         IN  /\ agents' = [agents EXCEPT ![i] = r.self]
             /\ last' = Step("HumanAgent.__call__", i, observation, r)
    /\ UNCHANGED <<environ, api_key>>

ConstructGPT(model_name) ==
    /\ LET r == GPTAgentInit(model_name, environ)
       IN  /\ r.result.kind = "return" => Len(agents) < MaxAgents
           /\ api_key' = r.api_key
           /\ agents' = IF r.result.kind = "return"
                        THEN Append(agents, r.result.value)
                        ELSE agents
           /\ last' = [ op |-> "GPTAgent.__init__", model_name |-> model_name,
                        env |-> environ, events |-> r.events, result |-> r.result ]
    /\ UNCHANGED environ

CallGPT(i, observation) ==
    /\ i \in DOMAIN agents
    /\ agents[i].cls = "GPTAgent"
    /\ \E outcome \in CreateOutcomes(agents[i].model_name) :
         LET r == GPTAgentCall(agents[i], observation, outcome)
         IN  /\ agents' = [agents EXCEPT ![i] = r.self]
             /\ last' = Step("GPTAgent.__call__", i, observation, r)
    /\ UNCHANGED <<environ, api_key>>

ConstructHF(model_name, quantize) ==
    /\ \E modelLoads \in BOOLEAN :
         LET r == HFLocalAgentInit(model_name, quantize, modelLoads)
         IN  /\ r.result.kind = "return" => Len(agents) < MaxAgents
             /\ agents' = IF r.result.kind = "return"
                          THEN Append(agents, r.result.value)
                          ELSE agents
             /\ last' = [ op |-> "HFLocalAgent.__init__", model_name |-> model_name,
                          events |-> r.events, result |-> r.result ]
    /\ UNCHANGED <<environ, api_key>>

CallHF(i, observation) ==
    /\ i \in DOMAIN agents
    /\ agents[i].cls = "HFLocalAgent"
    /\ \E outcome \in PipelineOutcomes :
         LET r == HFLocalAgentCall(agents[i], observation, outcome)
         IN  /\ agents' = [agents EXCEPT ![i] = r.self]
             /\ last' = Step("HFLocalAgent.__call__", i, observation, r)
    /\ UNCHANGED <<environ, api_key>>

Next ==
    \/ \E v \in EnvValues : SetEnviron(v)
    \/ \E m \in HumanNames : ConstructHuman(m)
    \/ \E i \in 1..MaxAgents, o \in Observations : CallHuman(i, o)
    \/ \E m \in ModelNames : ConstructGPT(m)
    \/ \E i \in 1..MaxAgents, o \in Observations : CallGPT(i, o)
    \/ \E m \in ModelNames, q \in BOOLEAN : ConstructHF(m, q)
    \/ \E i \in 1..MaxAgents, o \in Observations : CallHF(i, o)

Spec == Init /\ [][Next]_vars

----------------------------------------------------------------------------
(* Properties *)

HumanCalled(l) == l.op = "HumanAgent.__call__"
GPTCalled(l) == l.op = "GPTAgent.__call__"
HFCalled(l) == l.op = "HFLocalAgent.__call__"
ModelCalled(l) == GPTCalled(l) \/ HFCalled(l)
Called(l) == HumanCalled(l) \/ ModelCalled(l)
GPTConstructed(l) == l.op = "GPTAgent.__init__"
HFConstructed(l) == l.op = "HFLocalAgent.__init__"

\* The first candidate of a normal backend answer has text.
HasText(l) ==
    /\ ModelCalled(l)
    /\ l.outcome.kind = "return"
    /\ IF GPTCalled(l)
       THEN /\ l.outcome.value.choices # <<>>
            /\ ~l.outcome.value.choices[1].message.content.isNone
       ELSE l.outcome.value # <<>>

\* The text of the first candidate the backend returned.
FirstText(l) ==
    IF GPTCalled(l) THEN l.outcome.value.choices[1].message.content.text
    ELSE l.outcome.value[1]

\* The exception raised inside the try block of a model call: by the
\* request or the pipeline run, or by the extraction of the reply.
Raises(l) ==
    /\ ModelCalled(l)
    /\ ~HasText(l)

Raised(l) ==
    IF l.outcome.kind = "raise" THEN l.outcome.exc
    ELSE IF GPTCalled(l) /\ l.outcome.value.choices # <<>> THEN AttributeError
    ELSE IndexError

Catchable(e) == e.isException /\ e.printable

\* r is t without its leading and trailing whitespace.
IsTrimOf(r, t) ==
    /\ \E i \in 0..Len(t) :
         /\ \A k \in 1..i : t[k] \in Whitespace
         /\ \A k \in (i + Len(r) + 1)..Len(t) : t[k] \in Whitespace
         /\ i + Len(r) <= Len(t)
         /\ r = SubSeq(t, i + 1, i + Len(r))
    /\ r # <<>> => (r[1] \notin Whitespace /\ r[Len(r)] \notin Whitespace)

(* C1, as stated: a call of any variant returns an action and lets no      *)
(* exception out, whatever the input read, the request or the pipeline     *)
(* run does.                                                               *)
C1_NoExceptionOut ==
    Called(last) => last.result.kind = "return"

(* C1, amended: a call of the remote-model or the local-model variant      *)
(* lets an exception out exactly when what the try block raised does not   *)
(* derive from Exception or cannot be rendered as text; every other        *)
(* failure, a failed extraction included, ends in a returned action. A     *)
(* call of the interactive variant lets out whatever the input read        *)
(* raises.                                                                 *)
C1_ExceptionOutExactlyWhenUncatchable ==
    /\ ModelCalled(last) =>
         (last.result.kind = "raise" <=> (Raises(last) /\ ~Catchable(Raised(last))))
    /\ HumanCalled(last) =>
         (last.result.kind = "raise" <=> last.outcome.kind = "raise")

C1_Witness ==
    /\ GPTCalled(last)
    /\ last.outcome.kind = "return"
    /\ last.outcome.value.choices = <<>>
    /\ last.result.kind = "return"

(* C2: constructing the remote-model variant with the credential variable  *)
(* not set raises the configuration error before the client is built and   *)
(* before any request; no instance results, and every call is a call on a  *)
(* constructed instance of its class.                                      *)
C2_MissingKeyRaisesFirst ==
    [][ /\ (GPTConstructed(last') /\ last'.env.isNone) =>
             /\ last'.result = Raise(ValueError)
             /\ last'.events = <<>>
             /\ agents' = agents
        /\ Called(last') =>
             /\ last'.self \in DOMAIN agents
             /\ GPTCalled(last') =>
                  /\ agents[last'.self].cls = "GPTAgent"
                  /\ agents[last'.self].client = OpenAIClient ]_vars

C2_Witness ==
    /\ GPTConstructed(last)
    /\ last.env.isNone
    /\ last.result.kind = "raise"
    /\ agents # <<>>

(* C3, as stated: whenever the request, the extraction or the pipeline run *)
(* raises, the call returns "An error occurred: " followed by the message. *)
C3_EveryFailureBecomesText ==
    Raises(last) => last.result = Return(<<"An error occurred: ">> \o Raised(last).msg)

(* C3, amended: whenever the request, the extraction or the pipeline run   *)
(* raises an exception that derives from Exception and can be rendered as  *)
(* text, the call returns "An error occurred: " followed by the message,   *)
(* and the instance is still there with its client or pipeline.            *)
C3_CatchableFailureBecomesText ==
    (Raises(last) /\ Catchable(Raised(last))) =>
        /\ last.result = Return(<<"An error occurred: ">> \o Raised(last).msg)
        /\ last.self \in DOMAIN agents
        /\ GPTCalled(last) => agents[last.self].client = OpenAIClient
        /\ HFCalled(last) => agents[last.self].pipeline.task = "text-generation"

C3_Witness ==
    /\ HFCalled(last)
    /\ last.outcome.kind = "raise"
    /\ last.result = Return(<<"An error occurred: ", "Connection error.">>)

(* C4: when the backend returns normally, the action is the text of the    *)
(* first candidate without its leading and trailing whitespace: nothing    *)
(* added, the observation not prepended, the inner text unchanged.         *)
C4_ActionIsTrimmedFirstText ==
    HasText(last) =>
        /\ last.result.kind = "return"
        /\ IsTrimOf(last.result.value, FirstText(last))

C4_Witness ==
    /\ HFCalled(last)
    /\ HasText(last)
    /\ FirstText(last) = <<"\n", " ", "a", " ", "b", " ", "\n">>
    /\ last.observation # <<>>
    /\ last.result = Return(<<"a", " ", "b">>)

(* C5: a call of the interactive variant writes the observation to         *)
(* standard output before it reads standard input, reads once, and returns *)
(* the line read as it was typed, untrimmed.                               *)
C5_WriteThenReadVerbatim ==
    HumanCalled(last) =>
        /\ \E w, r \in DOMAIN last.events :
             /\ w < r
             /\ last.events[w] = [ev |-> "stdout.write",
                                  text |-> last.observation \o <<"\n">>]
             /\ last.events[r].ev = "stdin.readline"
             /\ \A k \in DOMAIN last.events :
                  last.events[k].ev = "stdin.readline" => k = r
        /\ last.outcome.kind = "return" =>
             /\ last.result.kind = "return"
             /\ last.outcome.value \in { last.result.value,
                                         last.result.value \o <<"\n">> }

C5_Witness ==
    /\ HumanCalled(last)
    /\ last.result = Return(<<" ", "hi", " ">>)

(* C6, as stated: for the remote-model and the local-model variant an      *)
(* unresolvable model identifier is never first seen during a call, as an  *)
(* "An error occurred: ..." action.                                        *)
C6_UnresolvableNeverSeenInCall ==
    ( /\ ModelCalled(last)
      /\ last.result.kind = "return"
      /\ last.result.value # <<>>
      /\ Head(last.result.value) = "An error occurred: " ) =>
        agents[last.self].model_name \in Resolvable

(* C6, amended: a missing credential (remote-model variant) and an         *)
(* unresolvable identifier (local-model variant) are raised by the         *)
(* constructor and not caught, so no local-model instance has an           *)
(* unresolvable identifier; the remote-model constructor does not use the  *)
(* identifier and succeeds whenever the credential is there.               *)
C6_ConfigurationFailures ==
    /\ GPTConstructed(last) =>
         (last.result.kind = "raise" <=> ~Truthy(last.env))
    /\ (GPTConstructed(last) /\ last.result.kind = "raise") =>
         last.result.exc.type = "ValueError"
    /\ (HFConstructed(last) /\ last.model_name \notin Resolvable) =>
         last.result = Raise(OSError)
    /\ \A i \in DOMAIN agents :
         agents[i].cls = "HFLocalAgent" => agents[i].model_name \in Resolvable

C6_Witness ==
    /\ HFConstructed(last)
    /\ last.model_name = "no-such-model"
    /\ last.result.kind = "raise"

(* C7: every constructed instance has a non-empty model_name and           *)
(* agent_identifier.                                                       *)
C7_IdentifierNonEmpty ==
    \A i \in DOMAIN agents :
        agents[i].model_name # "" /\ agents[i].agent_identifier # ""

(* C8, as stated: no operation on an instance, a failed construction       *)
(* included, writes state outside that instance; the process-global API    *)
(* configuration stays as it was.                                          *)
C8_NothingOutsideTheInstance ==
    [][ last'.op # "os.environ" =>
          /\ api_key' = api_key
          /\ \A j \in DOMAIN agents : j \in DOMAIN agents' /\ agents'[j] = agents[j]
      ]_vars

(* C8, amended: no operation changes an attribute of another instance or   *)
(* the environment; the process-global openai.api_key is written by every  *)
(* construction of the remote-model variant, failed or not, which sets it  *)
(* to the value of the credential variable, and by nothing else; only the  *)
(* interactive variant's calls use the standard streams.                   *)
C8_OnlyApiKeyIsShared ==
    [][ /\ \A j \in DOMAIN agents : j \in DOMAIN agents' /\ agents'[j] = agents[j]
        /\ GPTConstructed(last') => api_key' = environ
        /\ ~GPTConstructed(last') => api_key' = api_key
        /\ last'.op # "os.environ" => environ' = environ
        /\ ~HumanCalled(last') =>
             \A k \in DOMAIN last'.events :
                 last'.events[k].ev \notin {"stdout.write", "stdin.readline"}
      ]_vars

C8_Witness ==
    /\ Len(agents) >= 2
    /\ GPTConstructed(last)
    /\ last.result.kind = "raise"
    /\ api_key = Str("")

(* C9: a call, succeeding or not, leaves every attribute of the instance   *)
(* as it was and loads nothing; agent_identifier equals model_name, and    *)
(* the local variant's pipeline is the one built at construction from its  *)
(* tokenizer and model; two calls in a row with the same observation and   *)
(* the same backend answer return the same action.                         *)
C9_CallsKeepNoState ==
    [][ /\ Called(last') =>
             /\ agents' = agents
             /\ \A k \in DOMAIN last'.events :
                  last'.events[k].ev \notin
                      { "AutoTokenizer.from_pretrained",
                        "AutoModelForCausalLM.from_pretrained",
                        "pipeline", "openai.OpenAI" }
        /\ \A i \in DOMAIN agents' :
             /\ agents'[i].agent_identifier = agents'[i].model_name
             /\ agents'[i].cls = "HFLocalAgent" =>
                  /\ agents'[i].tokenizer.name = agents'[i].model_name
                  /\ agents'[i].model.load_in_8bit = agents'[i].quantize
                  /\ agents'[i].pipeline.model = agents'[i].model
                  /\ agents'[i].pipeline.tokenizer = agents'[i].tokenizer
        /\ ( /\ Called(last) /\ last'.op = last.op
             /\ last'.observation = last.observation
             /\ last'.outcome = last.outcome ) =>
               last'.result = last.result
      ]_vars

C9_Witness ==
    /\ HFCalled(last)
    /\ agents[last.self].quantize
    /\ last.outcome.kind = "raise"
    /\ last.result.kind = "return"

(* C10: a call of the remote-model or the local-model variant issues       *)
(* exactly one backend request, the system message followed by the         *)
(* observation as the only user message, or one pipeline run over the      *)
(* observation, whether the request succeeds or fails, and then ends.      *)
C10_OneRequestPerCall ==
    /\ GPTCalled(last) =>
         /\ Len(last.events) = 1
         /\ last.events[1].ev = "chat.completions.create"
         /\ last.events[1].model = agents[last.self].model_name
         /\ last.events[1].messages =
              << [role |-> "system", content |-> <<"You are a helpful assistant.">>],
                 [role |-> "user", content |-> last.observation] >>
         /\ last.events[1].n = 1
    /\ HFCalled(last) =>
         /\ Len(last.events) = 1
         /\ last.events[1].ev = "pipeline.__call__"
         /\ last.events[1].text_inputs = last.observation
         /\ last.events[1].num_return_sequences = 1
         /\ ~last.events[1].return_full_text
    /\ ModelCalled(last) => last.result.kind \in {"return", "raise"}

C10_Witness ==
    /\ GPTCalled(last)
    /\ last.outcome.kind = "raise"
    /\ Len(last.events) = 1
    /\ last.result.kind = "return"

====
